---- MODULE Spec2Model ----
(***************************************************************************)
(* eBird hotspot guide: the aggregation pipeline of src/main.py.           *)
(*                                                                         *)
(*   step 1  count_checklists_per_hotspot   (processors/checklist_counter) *)
(*   step 2  count_species_detections       (processors/species_detector)  *)
(*   step 3  calculate_occurrence_rates     (processors/occurrence_calc.)  *)
(*   step 4  the write_* calls of main                                     *)
(*                                                                         *)
(* Two specifications share the state and the operators that model the     *)
(* code.  Spec runs the two aggregation passes row by row, chunk by chunk, *)
(* over short files; RateSpec runs each pass as one step over survey       *)
(* files long enough to pass the 10-checklist gate of step 3.              *)
(*                                                                         *)
(* Numbers: a rate is kept as the integer number of 1/10000 (round(x, 4)), *)
(* an average count as the integer number of 1/10 (round(x, 1)).           *)
(* None is the empty sequence << >>, a present optional value v is <<v>>;  *)
(* the unset scientific_name of a new detection entry is the string        *)
(* "None".  A dict is a function on its keys; the dict of one species'     *)
(* locations also keeps its insertion order, which the stable sort of step *)
(* 3 observes.                                                             *)
(***************************************************************************)
EXTENDS Integers, Sequences, FiniteSets, TLC

VARIABLES
    pc,                 \* position of main(): step1, step2, step3, step4, done, aborted
    rows,               \* rows the reader of the current input file has returned so far
    filtered,           \* rows of the current chunk that passed the mask, still to iterate
    hotspot_data,       \* accumulator of count_checklists_per_hotspot
    species_detections, \* accumulator of count_species_detections
    species_guides,     \* result of calculate_occurrence_rates
    written             \* whether the write_* calls of main have run

vars == <<pc, rows, filtered, hotspot_data, species_detections, species_guides, written>>

----------------------------------------------------------------------------
(* Bounds of the model *)

\* rows of the sampling file in Spec
MaxEventRows == 2
\* rows of the main observations file in Spec
MaxObsRows == 2
\* RateSpec: a location has 0 or MIN_CHECKLISTS_THRESHOLD - 1 ..
\* MIN_CHECKLISTS_THRESHOLD + VisitSlack complete checklists
VisitSlack == 1

----------------------------------------------------------------------------
(* config.py *)

CHUNK_SIZE == 100000
SAMPLING_CHUNK_SIZE == 50000
MIN_CHECKLISTS_THRESHOLD == 10
HIGH_CONFIDENCE_MIN == 100
MEDIUM_CONFIDENCE_MIN == 30
RATE_DECIMAL_PLACES == 4

SeasonNames == <<"spring", "summer", "fall", "winter">>

SEASONS ==
    [spring |-> <<3, 4, 5>>,
     summer |-> <<6, 7>>,
     fall   |-> <<8, 9, 10, 11>>,
     winter |-> <<12, 1, 2>>]

Months == 1..12

----------------------------------------------------------------------------
(* Python values *)

None == << >>

Some(v) == <<v>>

\* an empty dict
EmptyDict == [k \in {} |-> {}]

\* d[k] = v
Put(d, k, v) == [x \in (DOMAIN d) \cup {k} |-> IF x = k THEN v ELSE d[x]]

Max(a, b) == IF a >= b THEN a ELSE b

RECURSIVE SumSeq(_)
SumSeq(s) == IF s = << >> THEN 0 ELSE Head(s) + SumSeq(Tail(s))

RECURSIVE Pow10(_)
Pow10(n) == IF n = 0 THEN 1 ELSE 10 * Pow10(n - 1)

\* round(num / den, places) as the integer number of 10^-places, for num >= 0,
\* den > 0.  Python rounds the binary quotient to nearest, and an exact tie
\* (only possible when num/den is a binary fraction) to the even neighbour.
Round(num, den, places) ==
    LET x == num * Pow10(places)
        q == x \div den
        r == x % den
    IN  IF 2 * r < den THEN q
        ELSE IF 2 * r > den THEN q + 1
        ELSE IF q % 2 = 0 THEN q ELSE q + 1

----------------------------------------------------------------------------
(* Input rows.  A date is its calendar month, or 0 when pd.to_datetime      *)
(* cannot parse it.  A count field is the text of the column: the presence *)
(* sentinel X, empty, an integer literal n, a decimal literal n.5, or      *)
(* other text.                                                             *)

Locs == {"L1", "L2"}

CountX == [k |-> "X", n |-> 0]
CountEmpty == [k |-> "empty", n |-> 0]
CountText == [k |-> "text", n |-> 0]
CountInt(n) == [k |-> "int", n |-> n]
CountDec(n) == [k |-> "dec", n |-> n]

\* rows of the sampling file (SAMPLING_COLS)
EventRow(loc, kind, complete, date, sid) ==
    [loc |-> loc, name |-> loc, lat |-> 42, lon |-> 83,
     kind |-> kind, complete |-> complete, date |-> date, sid |-> sid]

\* rows of the main file (MAIN_COLS)
ObsRow(species, sci, category, loc, kind, complete, sid, date, count) ==
    [species |-> species, sci |-> sci, category |-> category, loc |-> loc,
     kind |-> kind, complete |-> complete, sid |-> sid, date |-> date,
     count |-> count]

----------------------------------------------------------------------------
(* processors/checklist_counter.py *)

\* line 51: the mask of a sampling chunk
EventMask(row) == row.kind = "H" /\ row.complete = 1

\* line 56: pd.to_datetime raises on a date it cannot parse
DateParses(row) == row.date \in Months

\* lines 64-70: the record of a location's first qualifying row
NewHotspot(row) ==
    [name |-> row.name, latitude |-> row.lat, longitude |-> row.lon,
     total_checklists |-> 0,
     monthly_checklists |-> [m \in Months |-> 0]]

\* BumpChecklists without the monthly increment of line 73
BumpChecklists_TotalOnly(h, month) ==
    [h EXCEPT !.total_checklists = @ + 1]

\* lines 72-73: the two increments of one row
BumpChecklists(h, month) ==
    [h EXCEPT !.total_checklists = @ + 1, !.monthly_checklists[month] = @ + 1]

\* lines 59-73: the body of the loop over filtered.iterrows()
CountChecklistRow(hd, row) ==
    LET hd1 == IF row.loc \in DOMAIN hd THEN hd
               ELSE Put(hd, row.loc, NewHotspot(row))
    IN  Put(hd1, row.loc, BumpChecklists(hd1[row.loc], row.date))

RECURSIVE CountChecklistRows(_, _)
CountChecklistRows(hd, rs) ==
    IF rs = << >> THEN hd
    ELSE CountChecklistRows(CountChecklistRow(hd, Head(rs)), Tail(rs))

\* lines 50-56: the rows of a chunk that the loop iterates
FilterEvents(chunk) == SelectSeq(chunk, EventMask)

\* line 56 raises for the chunk
EventChunkRaises(chunk) ==
    \E i \in 1..Len(chunk) : EventMask(chunk[i]) /\ ~DateParses(chunk[i])

----------------------------------------------------------------------------
(* processors/species_detector.py *)

\* lines 49-61: read_csv infers the dtype of OBSERVATION COUNT per chunk (the
\* dtype map does not name it): a chunk whose count fields are all numeric
\* or empty becomes a numeric column, any other chunk a column of strings.
CountColumnNumeric(chunk) ==
    \A i \in 1..Len(chunk) : chunk[i].count.k \in {"empty", "int", "dec"}

\* the value row['OBSERVATION COUNT'] holds
ObsCountValue(count, numeric) ==
    IF count.k = "empty" THEN [t |-> "nan", k |-> count.k, n |-> 0]
    ELSE IF numeric THEN [t |-> "num", k |-> count.k, n |-> count.n]
    ELSE [t |-> "str", k |-> count.k, n |-> count.n]

\* lines 96-102: the count the row adds, None when the row adds none.
\* int() of a number truncates it, int() of a string raises ValueError
\* unless it is an integer literal.
ParsedCount(v) ==
    IF v.t = "nan" \/ (v.t = "str" /\ v.k = "X") THEN None
    ELSE IF v.t = "num" THEN Some(v.n)
    ELSE IF v.k = "int" THEN Some(v.n)
    ELSE None

\* lines 70-75: the mask of a main chunk
ObsMask(row) ==
    row.kind = "H" /\ row.complete = 1 /\ row.category = "species"

\* lines 35-43: the default of the nested defaultdict
NewDetection ==
    [scientific_name |-> "None",
     checklist_ids |-> {},
     monthly_checklist_ids |-> [m \in Months |-> {}],
     total_count |-> 0,
     max_count |-> 0]

\* RecordDetection without line 92
RecordDetection_NoMonthly(data, row) ==
    [data EXCEPT !.scientific_name = row.sci,
                 !.checklist_ids = @ \cup {row.sid}]

\* RecordDetection keeping only the latest visit identifier
RecordDetection_LastVisit(data, row) ==
    [data EXCEPT !.scientific_name = row.sci,
                 !.checklist_ids = {row.sid},
                 !.monthly_checklist_ids[row.date] = @ \cup {row.sid}]

\* lines 90-92
RecordDetection(data, row) ==
    [data EXCEPT !.scientific_name = row.sci,
                 !.checklist_ids = @ \cup {row.sid},
                 !.monthly_checklist_ids[row.date] = @ \cup {row.sid}]

\* lines 95-102
RecordCount(data, v) ==
    LET c == ParsedCount(v)
    IN  IF c = None THEN data
        ELSE [data EXCEPT !.total_count = @ + c[1],
                          !.max_count = Max(@, c[1])]

\* a dict of one species: its location keys in insertion order, and the values
EmptyHotspots == [keys |-> << >>, at |-> EmptyDict]

\* lines 82-102: the body of the loop over filtered.iterrows(); row.obs_count
\* is the value of the count column as read
CountDetectionRow(sd, row) ==
    LET hs    == IF row.species \in DOMAIN sd THEN sd[row.species] ELSE EmptyHotspots
        isNew == row.loc \notin DOMAIN hs.at
        data  == IF isNew THEN NewDetection ELSE hs.at[row.loc]
        data2 == RecordCount(RecordDetection(data, row), row.obs_count)
    IN  Put(sd, row.species,
            [keys |-> IF isNew THEN Append(hs.keys, row.loc) ELSE hs.keys,
             at   |-> Put(hs.at, row.loc, data2)])

RECURSIVE CountDetectionRows(_, _)
CountDetectionRows(sd, rs) ==
    IF rs = << >> THEN sd
    ELSE CountDetectionRows(CountDetectionRow(sd, Head(rs)), Tail(rs))

\* lines 65-79: the rows of a chunk that the loop iterates, each with the
\* value of its count column
FilterObs(chunk) ==
    LET numeric == CountColumnNumeric(chunk)
        typed == [i \in 1..Len(chunk) |->
                    [species |-> chunk[i].species, sci |-> chunk[i].sci,
                     category |-> chunk[i].category, loc |-> chunk[i].loc,
                     kind |-> chunk[i].kind, complete |-> chunk[i].complete,
                     sid |-> chunk[i].sid, date |-> chunk[i].date,
                     count |-> chunk[i].count,
                     obs_count |-> ObsCountValue(chunk[i].count, numeric)]]
    IN  SelectSeq(typed, ObsMask)

\* ObsChunkRaises with pd.to_datetime(..., errors='coerce') in line 79
ObsChunkRaises_Coerce(chunk) == FALSE

\* line 79 raises for the chunk
ObsChunkRaises(chunk) ==
    \E i \in 1..Len(chunk) : ObsMask(chunk[i]) /\ ~DateParses(chunk[i])

----------------------------------------------------------------------------
(* processors/occurrence_calculator.py *)

\* lines 47-54
determine_confidence(checklist_count) ==
    IF checklist_count >= HIGH_CONFIDENCE_MIN THEN "high"
    ELSE IF checklist_count >= MEDIUM_CONFIDENCE_MIN THEN "medium"
    ELSE "low"

\* PassesGate with > for >= in line 88
PassesGate_Strict(hd, loc, min_checklists) ==
    /\ loc \in DOMAIN hd
    /\ hd[loc].total_checklists > min_checklists

\* lines 82-89: the two `continue`s of the loop over a species' locations
PassesGate(hd, loc, min_checklists) ==
    /\ loc \in DOMAIN hd
    /\ hd[loc].total_checklists >= min_checklists

RECURSIVE SumChecklists(_, _)
\* lines 104-106
SumChecklists(hotspot, months) ==
    IF months = << >> THEN 0
    ELSE hotspot.monthly_checklists[Head(months)]
         + SumChecklists(hotspot, Tail(months))

RECURSIVE SumDetections(_, _)
\* lines 108-111
SumDetections(data, months) ==
    IF months = << >> THEN 0
    ELSE Cardinality(data.monthly_checklist_ids[Head(months)])
         + SumDetections(data, Tail(months))

\* line 107: a season is reported when it has at least 5 checklists
SeasonReported(hotspot, season) ==
    SumChecklists(hotspot, SEASONS[season]) >= 5

\* lines 112-113
SeasonRate(hotspot, data, season) ==
    Round(SumDetections(data, SEASONS[season]),
          SumChecklists(hotspot, SEASONS[season]), RATE_DECIMAL_PLACES)

\* lines 101-113
SeasonalRates(hotspot, data) ==
    [s \in {SeasonNames[i] : i \in {j \in 1..Len(SeasonNames) :
                                      SeasonReported(hotspot, SeasonNames[j])}}
        |-> SeasonRate(hotspot, data, s)]

\* lines 116-124
MonthlyRates(hotspot, data) ==
    [m \in {x \in Months : hotspot.monthly_checklists[x] >= 3}
        |-> Round(Cardinality(data.monthly_checklist_ids[m]),
                  hotspot.monthly_checklists[m], RATE_DECIMAL_PLACES)]

\* lines 127-129
AvgCount(data) ==
    IF Cardinality(data.checklist_ids) > 0 /\ data.total_count > 0
    THEN Some(Round(data.total_count, Cardinality(data.checklist_ids), 1))
    ELSE None

\* line 131
MaxCount(data) == IF data.max_count > 0 THEN Some(data.max_count) ELSE None

\* lines 95-98, 135-148: the SpeciesAtHotspot of an included location
HotspotEntry(loc, hotspot, data) ==
    [locality_id |-> loc,
     hotspot_name |-> hotspot.name,
     latitude |-> hotspot.latitude,
     longitude |-> hotspot.longitude,
     detection_count |-> Cardinality(data.checklist_ids),
     total_checklists |-> hotspot.total_checklists,
     occurrence_rate |-> Round(Cardinality(data.checklist_ids),
                               hotspot.total_checklists, RATE_DECIMAL_PLACES),
     avg_count |-> AvgCount(data),
     max_count |-> MaxCount(data),
     seasonal_rates |-> SeasonalRates(hotspot, data),
     monthly_rates |-> MonthlyRates(hotspot, data),
     confidence_level |-> determine_confidence(hotspot.total_checklists)]

\* KeyLess with the key occurrence_rate alone
KeyLess_RateOnly(a, b) == a.occurrence_rate < b.occurrence_rate

\* lines 150-154: the sort key (occurrence_rate, detection_count), compared
\* as Python compares tuples
KeyLess(a, b) ==
    \/ a.occurrence_rate < b.occurrence_rate
    \/ /\ a.occurrence_rate = b.occurrence_rate
       /\ a.detection_count < b.detection_count

RECURSIVE InsertDescending(_, _)
\* x goes behind every element whose key is not smaller (the sort is stable)
InsertDescending(s, x) ==
    IF s = << >> THEN <<x>>
    ELSE IF KeyLess(Head(s), x) THEN <<x>> \o s
    ELSE <<Head(s)>> \o InsertDescending(Tail(s), x)

RECURSIVE SortFrom(_, _)
SortFrom(sorted, rest) ==
    IF rest = << >> THEN sorted
    ELSE SortFrom(InsertDescending(sorted, Head(rest)), Tail(rest))

\* lines 150-154: hotspots_list.sort(key=..., reverse=True)
SortHotspots(list) == SortFrom(<< >>, list)

RECURSIVE VisitLocations(_, _, _, _, _)
\* lines 80-148: the loop over hotspot_detections.items(); acc holds
\* hotspots_list, total_detections and scientific_name
VisitLocations(keys, at, hd, min_checklists, acc) ==
    IF keys = << >> THEN acc
    ELSE LET loc == Head(keys)
             next ==
                 IF ~PassesGate(hd, loc, min_checklists) THEN acc
                 ELSE [hotspots_list |->
                           Append(acc.hotspots_list,
                                  HotspotEntry(loc, hd[loc], at[loc])),
                       total_detections |->
                           acc.total_detections
                           + Cardinality(at[loc].checklist_ids),
                       scientific_name |->
                           IF acc.scientific_name = "None"
                           THEN at[loc].scientific_name
                           ELSE acc.scientific_name]
         IN  VisitLocations(Tail(keys), at, hd, min_checklists, next)

\* lines 76-162: the SpeciesGuide of one species
GuideOf(species_name, hotspot_detections, hd, min_checklists) ==
    LET acc == VisitLocations(hotspot_detections.keys, hotspot_detections.at,
                              hd, min_checklists,
                              [hotspots_list |-> << >>, total_detections |-> 0,
                               scientific_name |-> "None"])
        sorted == SortHotspots(acc.hotspots_list)
    IN  [common_name |-> species_name,
         scientific_name |-> IF acc.scientific_name = "None" THEN ""
                             ELSE acc.scientific_name,
         total_detections |-> acc.total_detections,
         total_hotspots_detected |-> Len(sorted),
         hotspots |-> sorted]

\* calculate_occurrence_rates keeping only the species with a location that
\* passes the gate
calculate_occurrence_rates_NonEmptyOnly(hd, sd, min_checklists) ==
    [sp \in { x \in DOMAIN sd :
                \E loc \in DOMAIN sd[x].at : PassesGate(hd, loc, min_checklists) }
        |-> GuideOf(sp, sd[sp], hd, min_checklists)]

\* lines 57-164
calculate_occurrence_rates(hd, sd, min_checklists) ==
    [sp \in DOMAIN sd |-> GuideOf(sp, sd[sp], hd, min_checklists)]

----------------------------------------------------------------------------
(* The passes as functions of a whole file read in chunks of chunksize rows *)

SubSeqFrom(s, i) == SubSeq(s, i, Len(s))

Min(a, b) == IF a <= b THEN a ELSE b

RECURSIVE ChecklistChunks(_, _, _)
\* checklist_counter.py lines 49-76: the loop over the chunks; the result
\* is the accumulator, or raised when pd.to_datetime raises in some chunk
ChecklistChunks(hd, file, chunksize) ==
    IF file = << >> THEN [raised |-> FALSE, value |-> hd]
    ELSE LET n == Min(chunksize, Len(file))
             chunk == SubSeq(file, 1, n)
         IN  IF EventChunkRaises(chunk)
             THEN [raised |-> TRUE, value |-> EmptyDict]
             ELSE ChecklistChunks(CountChecklistRows(hd, FilterEvents(chunk)),
                                  SubSeqFrom(file, n + 1), chunksize)

\* checklist_counter.py lines 11-78
count_checklists_per_hotspot(file, chunksize) ==
    ChecklistChunks(EmptyDict, file, chunksize)

RECURSIVE DetectionChunks(_, _, _)
\* species_detector.py lines 64-105: the loop over the chunks
DetectionChunks(sd, file, chunksize) ==
    IF file = << >> THEN [raised |-> FALSE, value |-> sd]
    ELSE LET n == Min(chunksize, Len(file))
             chunk == SubSeq(file, 1, n)
         IN  IF ObsChunkRaises(chunk)
             THEN [raised |-> TRUE, value |-> EmptyDict]
             ELSE DetectionChunks(CountDetectionRows(sd, FilterObs(chunk)),
                                  SubSeqFrom(file, n + 1), chunksize)

\* species_detector.py lines 12-111
count_species_detections(file, chunksize) ==
    DetectionChunks(EmptyDict, file, chunksize)

----------------------------------------------------------------------------
(* Spec: the pipeline of main(), the two passes row by row.                *)
(* The reader returns the next chunk of an input file, or ends the file;   *)
(* a chunk is any run of 1 or more rows, so every way of cutting a file    *)
(* into chunks is a behaviour.                                             *)

\* rows a sampling file may hold
EventAlphabet ==
    { EventRow(loc, kc[1], kc[2], date, "S1") :
        loc \in Locs, kc \in {<<"H", 1>>, <<"P", 1>>, <<"H", 0>>},
        date \in {0, 3, 4} }

BaseObs == ObsRow("A", "sci1", "species", "L1", "H", 1, "S1", 3, CountX)

\* rows a main file may hold: the base row, and the base row with one field
\* (or a few) changed
ObsAlphabet ==
    { BaseObs,
      [BaseObs EXCEPT !.sid = "S2"],
      [BaseObs EXCEPT !.date = 4],
      [BaseObs EXCEPT !.sci = "sci2"],
      [BaseObs EXCEPT !.count = CountInt(3)],
      [BaseObs EXCEPT !.count = CountInt(1), !.sid = "S2", !.date = 4],
      [BaseObs EXCEPT !.count = CountDec(2)],
      [BaseObs EXCEPT !.count = CountEmpty],
      [BaseObs EXCEPT !.count = CountText],
      [BaseObs EXCEPT !.species = "B"],
      [BaseObs EXCEPT !.loc = "L2"],
      [BaseObs EXCEPT !.category = "issf"],
      [BaseObs EXCEPT !.kind = "P"],
      [BaseObs EXCEPT !.complete = 0],
      [BaseObs EXCEPT !.date = 0],
      [BaseObs EXCEPT !.date = 0, !.kind = "P", !.count = CountInt(2)] }

Init ==
    /\ pc = "step1"
    /\ rows = << >>
    /\ filtered = << >>
    /\ hotspot_data = EmptyDict
    /\ species_detections = EmptyDict
    /\ species_guides = EmptyDict
    /\ written = FALSE

\* checklist_counter.py lines 49-56: the next chunk of the sampling file
ReadSamplingChunk ==
    /\ pc = "step1"
    /\ filtered = << >>
    /\ \E n \in 1..(MaxEventRows - Len(rows)) :
         \E chunk \in [1..n -> EventAlphabet] :
            /\ rows' = rows \o chunk
            /\ IF EventChunkRaises(chunk)
               THEN pc' = "aborted" /\ filtered' = << >>
               ELSE pc' = pc /\ filtered' = FilterEvents(chunk)
    /\ UNCHANGED <<hotspot_data, species_detections, species_guides, written>>

\* checklist_counter.py lines 59-73: one row of the chunk
CountRow ==
    /\ pc = "step1"
    /\ filtered # << >>
    /\ hotspot_data' = CountChecklistRow(hotspot_data, Head(filtered))
    /\ filtered' = Tail(filtered)
    /\ UNCHANGED <<pc, rows, species_detections, species_guides, written>>

\* checklist_counter.py line 78, main.py lines 63-73: the sampling file
\* ends, the pass returns and main opens the main file
SamplingDone ==
    /\ pc = "step1"
    /\ filtered = << >>
    /\ pc' = "step2"
    /\ rows' = << >>
    /\ UNCHANGED <<filtered, hotspot_data, species_detections, species_guides,
                   written>>

\* species_detector.py lines 64-79: the next chunk of the main file
ReadMainChunk ==
    /\ pc = "step2"
    /\ filtered = << >>
    /\ \E n \in 1..(MaxObsRows - Len(rows)) :
         \E chunk \in [1..n -> ObsAlphabet] :
            /\ rows' = rows \o chunk
            /\ IF ObsChunkRaises(chunk)
               THEN pc' = "aborted" /\ filtered' = << >>
               ELSE pc' = pc /\ filtered' = FilterObs(chunk)
    /\ UNCHANGED <<hotspot_data, species_detections, species_guides, written>>

\* species_detector.py lines 82-102: one row of the chunk
DetectRow ==
    /\ pc = "step2"
    /\ filtered # << >>
    /\ species_detections' = CountDetectionRow(species_detections, Head(filtered))
    /\ filtered' = Tail(filtered)
    /\ UNCHANGED <<pc, rows, hotspot_data, species_guides, written>>

\* MainDone with the return of line 108 inside the loop over the rows
MainDone_Early ==
    /\ pc = "step2"
    /\ pc' = "step3"
    /\ UNCHANGED <<rows, filtered, hotspot_data, species_detections,
                   species_guides, written>>

\* species_detector.py lines 108-111, main.py lines 73-74
MainDone ==
    /\ pc = "step2"
    /\ filtered = << >>
    /\ pc' = "step3"
    /\ UNCHANGED <<rows, filtered, hotspot_data, species_detections,
                   species_guides, written>>

\* main.py line 79
CalculateRates ==
    /\ pc = "step3"
    /\ species_guides' = calculate_occurrence_rates(hotspot_data, species_detections,
                                                    MIN_CHECKLISTS_THRESHOLD)
    /\ pc' = "step4"
    /\ UNCHANGED <<rows, filtered, hotspot_data, species_detections, written>>

\* main.py lines 82-106
WriteOutputs ==
    /\ pc = "step4"
    /\ written' = TRUE
    /\ pc' = "done"
    /\ UNCHANGED <<rows, filtered, hotspot_data, species_detections, species_guides>>

Next ==
    \/ ReadSamplingChunk
    \/ CountRow
    \/ SamplingDone
    \/ ReadMainChunk
    \/ DetectRow
    \/ MainDone
    \/ CalculateRates
    \/ WriteOutputs

Spec == Init /\ [][Next]_vars

----------------------------------------------------------------------------
(* RateSpec: the pipeline of main(), each pass one step over a whole file. *)
(* A sampling file lists, per location, its complete hotspot checklists    *)
(* (none, or a number around the gate of step 3) and one checklist at a    *)
(* personal location; the i-th checklist of a location is dated in month   *)
(* VisitMonth(i).  A main file lists species A on the first checklists of  *)
(* each location, and at most one further row.                             *)

MonthCycle == <<12, 3, 1, 4, 6>>

VisitMonth(i) == MonthCycle[((i - 1) % Len(MonthCycle)) + 1]

\* the visit identifier of the i-th checklist of a location
Sid(loc, i) == <<loc, i>>

VisitCounts ==
    {0} \cup ((MIN_CHECKLISTS_THRESHOLD - 1)..(MIN_CHECKLISTS_THRESHOLD + VisitSlack))

DetectionCounts ==
    {0, 1} \cup ((MIN_CHECKLISTS_THRESHOLD - 1)..(MIN_CHECKLISTS_THRESHOLD + VisitSlack))

LocOrder == <<"L1", "L2">>

SamplingBlock(loc, v) ==
    IF v = 0 THEN << >>
    ELSE [i \in 1..v |-> EventRow(loc, "H", 1, VisitMonth(i), Sid(loc, i))]
         \o <<EventRow(loc, "P", 1, VisitMonth(1), Sid(loc, 0))>>

SamplingFile(v) ==
    SamplingBlock(LocOrder[1], v[LocOrder[1]]) \o SamplingBlock(LocOrder[2], v[LocOrder[2]])

SamplingFiles == { SamplingFile(v) : v \in [Locs -> VisitCounts] }

MainBlock(loc, d, count) ==
    [i \in 1..d |-> ObsRow("A", "sci1", "species", loc, "H", 1, Sid(loc, i),
                           VisitMonth(i), count)]

ExtraRows ==
    { ObsRow(sp[1], sp[2], "species", loc, "H", 1, Sid(loc, 1), date, count) :
        sp \in {<<"A", "sci1">>, <<"B", "sci2">>}, loc \in Locs,
        date \in {MonthCycle[1], MonthCycle[3]}, count \in {CountX, CountInt(3)} }

MainFiles ==
    { MainBlock(LocOrder[1], d[LocOrder[1]], count)
        \o MainBlock(LocOrder[2], d[LocOrder[2]], count) \o extra :
        d \in [Locs -> DetectionCounts], count \in {CountX, CountInt(2)},
        extra \in {<< >>} \cup { <<r>> : r \in ExtraRows } }

\* main.py lines 63-64: step 1 over a whole sampling file
CountChecklists ==
    /\ pc = "step1"
    /\ \E file \in SamplingFiles :
         LET result == count_checklists_per_hotspot(file, SAMPLING_CHUNK_SIZE)
         IN  /\ rows' = file
             /\ IF result.raised
                THEN pc' = "aborted" /\ hotspot_data' = hotspot_data
                ELSE pc' = "step2" /\ hotspot_data' = result.value
    /\ UNCHANGED <<filtered, species_detections, species_guides, written>>

\* main.py lines 73-74: step 2 over a whole main file
CountDetections ==
    /\ pc = "step2"
    /\ \E file \in MainFiles :
         LET result == count_species_detections(file, CHUNK_SIZE)
         IN  /\ rows' = file
             /\ IF result.raised
                THEN pc' = "aborted" /\ species_detections' = species_detections
                ELSE pc' = "step3" /\ species_detections' = result.value
    /\ UNCHANGED <<filtered, hotspot_data, species_guides, written>>

NextRates ==
    \/ CountChecklists
    \/ CountDetections
    \/ CalculateRates
    \/ WriteOutputs

RateSpec == Init /\ [][NextRates]_vars

----------------------------------------------------------------------------
(* Properties *)

Running == pc \in {"step2", "step3", "step4", "done"}

Calculated == pc \in {"step4", "done"}

\* the qualifying rows of the main file that DetectRow has processed
ObsProcessed ==
    LET q == SelectSeq(rows, ObsMask)
    IN  SubSeq(q, 1, Len(q) - Len(filtered))

\* the processed rows of one (species, location) pair
PairRows(sp, loc) ==
    LET OfPair(r) == r.species = sp /\ r.loc = loc
    IN  SelectSeq(ObsProcessed, OfPair)

\* the (species, location) pairs of the detection accumulator
Pairs ==
    { <<sp, loc>> \in (DOMAIN species_detections) \X Locs :
        loc \in DOMAIN species_detections[sp].at }

DetectionOf(sp, loc) == species_detections[sp].at[loc]

\* the entries of a species' guide
EntriesOf(sp) ==
    { species_guides[sp].hotspots[i] : i \in 1..Len(species_guides[sp].hotspots) }

InGuide(sp, loc) == \E e \in EntriesOf(sp) : e.locality_id = loc

RECURSIVE SumMonths(_, _)
SumMonths(f, m) == IF m = 0 THEN 0 ELSE f[m] + SumMonths(f, m - 1)

SeqToSet(s) == { s[i] : i \in 1..Len(s) }

\* C1: every entry of every guide has 0 <= occurrence_rate <= 1 and
\* detection_count <= total_checklists, for any sampling file and any main
\* file.
C1_RateWithinUnitInterval ==
    Calculated =>
        \A sp \in DOMAIN species_guides : \A e \in EntriesOf(sp) :
            /\ 0 <= e.occurrence_rate
            /\ e.occurrence_rate <= Pow10(RATE_DECIMAL_PLACES)
            /\ e.detection_count <= e.total_checklists

\* step 1 is at a chunk boundary and hotspot_data is what one chunk of the
\* rows read so far gives
ChecklistsChunkInvariant ==
    (pc = "step1" /\ filtered = << >>) =>
        LET one == count_checklists_per_hotspot(rows, Len(rows))
        IN  ~one.raised /\ hotspot_data = one.value

\* the same of step 2 and species_detections
DetectionsChunkInvariant ==
    (Running /\ filtered = << >>) =>
        LET one == count_species_detections(rows, Len(rows))
        IN  ~one.raised /\ species_detections = one.value

\* C2: at every chunk boundary the accumulator of either pass equals the
\* accumulator of the same pass reading the rows so far as one chunk.
C2_ChunkSizeInvariance == ChecklistsChunkInvariant /\ DetectionsChunkInvariant

\* C3: after every processed row each location record has
\* total_checklists >= 1 and its 12 monthly counts sum to total_checklists.
C3_MonthlySumsToTotal ==
    \A loc \in DOMAIN hotspot_data :
        /\ hotspot_data[loc].total_checklists >= 1
        /\ SumMonths(hotspot_data[loc].monthly_checklists, 12)
               = hotspot_data[loc].total_checklists

C3_Witness ==
    /\ pc = "step1"
    /\ \E loc \in DOMAIN hotspot_data :
        /\ hotspot_data[loc].total_checklists = 2
        /\ hotspot_data[loc].monthly_checklists[3] = 1
        /\ hotspot_data[loc].monthly_checklists[4] = 1

\* C4: after every processed row the checklist_ids of a (species, location)
\* entry is the union of its 12 monthly_checklist_ids sets.
C4_OverallIsUnionOfMonthly ==
    \A p \in Pairs :
        LET data == DetectionOf(p[1], p[2])
        IN  /\ data.checklist_ids
                 = UNION { data.monthly_checklist_ids[m] : m \in Months }
            /\ Cardinality(data.checklist_ids)
                 = Cardinality(UNION { data.monthly_checklist_ids[m] : m \in Months })

C4_Witness ==
    /\ pc = "step2"
    /\ \E p \in Pairs :
        LET data == DetectionOf(p[1], p[2])
        IN  /\ Cardinality(data.checklist_ids) = 2
            /\ data.monthly_checklist_ids[3] # {}
            /\ data.monthly_checklist_ids[4] # {}

\* C5: after step 3 a location is in a species' guide exactly when the
\* species has a detection entry for it and the location has at least
\* MIN_CHECKLISTS_THRESHOLD (10) checklists in the visit mapping.
C5_InclusionGate ==
    Calculated =>
        \A sp \in DOMAIN species_detections : \A loc \in Locs :
            InGuide(sp, loc) <=>
                /\ loc \in DOMAIN species_detections[sp].at
                /\ loc \in DOMAIN hotspot_data
                /\ hotspot_data[loc].total_checklists >= MIN_CHECKLISTS_THRESHOLD

\* a location with exactly 10 checklists is in the guide; one with 9
\* checklists, the species seen on all 9, is not
C5_Witness ==
    /\ Calculated
    /\ \E sp \in DOMAIN species_detections :
        /\ {"L1", "L2"} \subseteq DOMAIN species_detections[sp].at
        /\ {"L1", "L2"} \subseteq DOMAIN hotspot_data
        /\ hotspot_data["L1"].total_checklists = MIN_CHECKLISTS_THRESHOLD
        /\ InGuide(sp, "L1")
        /\ hotspot_data["L2"].total_checklists = MIN_CHECKLISTS_THRESHOLD - 1
        /\ Cardinality(DetectionOf(sp, "L2").checklist_ids)
              = MIN_CHECKLISTS_THRESHOLD - 1
        /\ ~InGuide(sp, "L2")

\* C6: in every guide each entry has a rate above its successor's, or the
\* same rate and at least its successor's detection count; and the list
\* holds each included location's entry exactly once.
C6_RankedByRateThenDetections ==
    Calculated =>
        \A sp \in DOMAIN species_guides :
            LET hs == species_guides[sp].hotspots
                included ==
                    { loc \in DOMAIN species_detections[sp].at :
                        /\ loc \in DOMAIN hotspot_data
                        /\ hotspot_data[loc].total_checklists
                              >= MIN_CHECKLISTS_THRESHOLD }
            IN  /\ \A i \in 1..(Len(hs) - 1) :
                      \/ hs[i].occurrence_rate > hs[i + 1].occurrence_rate
                      \/ /\ hs[i].occurrence_rate = hs[i + 1].occurrence_rate
                         /\ hs[i].detection_count >= hs[i + 1].detection_count
                /\ Len(hs) = Cardinality(included)
                /\ SeqToSet(hs) =
                      { HotspotEntry(loc, hotspot_data[loc], DetectionOf(sp, loc)) :
                          loc \in included }

\* two entries of equal rate, the later inserted one first by its
\* detection count
C6_Witness ==
    /\ Calculated
    /\ \E sp \in DOMAIN species_guides :
        LET hs == species_guides[sp].hotspots
        IN  /\ Len(hs) = 2
            /\ species_detections[sp].keys = <<"L1", "L2">>
            /\ hs[1].locality_id = "L2"
            /\ hs[1].occurrence_rate = hs[2].occurrence_rate
            /\ hs[1].detection_count > hs[2].detection_count

\* the scientific name of the first processed row of a pair
FirstScientificName(sp, loc) == PairRows(sp, loc)[1].sci

\* C7: the scientific_name of a (species, location) entry is that of the
\* pair's first qualifying row, whatever later rows carry.
C7_FirstScientificNameKept ==
    Running =>
        \A p \in Pairs :
            DetectionOf(p[1], p[2]).scientific_name = FirstScientificName(p[1], p[2])

\* the detection count of every pair is the number of distinct visit
\* identifiers of its processed rows
DetectionCountIsDistinctVisits ==
    Running =>
        \A p \in Pairs :
            Cardinality(DetectionOf(p[1], p[2]).checklist_ids)
                = Cardinality({ r.sid : r \in SeqToSet(PairRows(p[1], p[2])) })

\* DetectRow is about to process a row whose visit identifier the pair's
\* entry already holds
RepeatedVisitNext ==
    /\ pc = "step2"
    /\ filtered # << >>
    /\ <<Head(filtered).species, Head(filtered).loc>> \in Pairs
    /\ Head(filtered).sid
          \in DetectionOf(Head(filtered).species, Head(filtered).loc).checklist_ids

\* the sizes the row leaves unchanged: the detection count, and the monthly
\* sets named by months
SizesKept(months) ==
    LET r == Head(filtered)
        old == DetectionOf(r.species, r.loc)
        new == species_detections'[r.species].at[r.loc]
    IN  /\ Cardinality(new.checklist_ids) = Cardinality(old.checklist_ids)
        /\ \A m \in months :
              Cardinality(new.monthly_checklist_ids[m])
                  = Cardinality(old.monthly_checklist_ids[m])

\* C8 as claimed: the detection count is the number of distinct visit
\* identifiers, and a row whose visit identifier is already in the set
\* leaves the detection count and all 12 monthly set sizes unchanged.
C8_RepeatedVisitKeepsAllSizes ==
    /\ []DetectionCountIsDistinctVisits
    /\ [][RepeatedVisitNext => SizesKept(Months)]_vars

\* C8 as amended: such a row leaves the detection count unchanged and the
\* size of every monthly set other than its own month's; its own month's
\* set is unchanged when it already holds the identifier.
C8_RepeatedVisitKeepsCount ==
    /\ []DetectionCountIsDistinctVisits
    /\ [][RepeatedVisitNext =>
            /\ SizesKept(Months \ {Head(filtered).date})
            /\ (Head(filtered).sid
                   \in DetectionOf(Head(filtered).species, Head(filtered).loc)
                          .monthly_checklist_ids[Head(filtered).date]
                => SizesKept(Months))]_vars

\* two rows of one pair and one visit have been processed
C8_Witness ==
    /\ Running
    /\ \E p \in Pairs :
        /\ Len(PairRows(p[1], p[2])) = 2
        /\ Cardinality(DetectionOf(p[1], p[2]).checklist_ids) = 1

\* the count field is the sentinel X, missing, or no integer
NotAnInteger(count) == count.k \in {"X", "empty", "dec", "text"}

\* DetectRow is about to process a row whose count field is of one of kinds
UncountedRowNext(kinds) ==
    pc = "step2" /\ filtered # << >> /\ Head(filtered).count.k \in kinds

\* the row is added to the detection sets and changes no count
DetectedCountsKept ==
    LET r == Head(filtered)
        old == IF <<r.species, r.loc>> \in Pairs
               THEN DetectionOf(r.species, r.loc) ELSE NewDetection
        new == species_detections'[r.species].at[r.loc]
    IN  /\ r.sid \in new.checklist_ids
        /\ r.sid \in new.monthly_checklist_ids[r.date]
        /\ new.total_count = old.total_count
        /\ new.max_count = old.max_count

\* a pair all of whose rows have no integer count is reported without counts
UncountedPairsReportNone ==
    Calculated =>
        \A sp \in DOMAIN species_guides : \A e \in EntriesOf(sp) :
            (\A r \in SeqToSet(PairRows(sp, e.locality_id)) : NotAnInteger(r.count))
                => e.avg_count = None /\ e.max_count = None

\* the part of C9 the code keeps: rows with X, no count or non-numeric text
SentinelRowStillDetected ==
    [][UncountedRowNext({"X", "empty", "text"}) => DetectedCountsKept]_vars

\* C9: a qualifying row whose count is X, missing or not an integer adds its
\* visit identifier to the detection sets and leaves total_count and
\* max_count unchanged; a pair with only such rows is reported with
\* avg_count and max_count None.
C9_UncountedRowStillDetected ==
    /\ [][UncountedRowNext({"X", "empty", "dec", "text"}) => DetectedCountsKept]_vars
    /\ []UncountedPairsReportNone

\* the checklists of a location in the months of a season
SeasonVisits(loc, s) ==
    SumSeq([i \in 1..Len(SEASONS[s]) |->
               hotspot_data[loc].monthly_checklists[SEASONS[s][i]]])

\* the visits of a season on which the species was detected at a location
SeasonDetected(sp, loc, s) ==
    UNION { DetectionOf(sp, loc).monthly_checklist_ids[m] : m \in SeqToSet(SEASONS[s]) }

\* the part of C10 the code keeps: a season is reported exactly from 5
\* checklists on, never as 0 below
SeasonReportedFromFive ==
    Calculated =>
        \A sp \in DOMAIN species_guides : \A e \in EntriesOf(sp) :
            \A s \in SeqToSet(SeasonNames) :
                s \in DOMAIN e.seasonal_rates <=> SeasonVisits(e.locality_id, s) >= 5

\* C10: for every entry of a guide a season is reported exactly when the
\* location's checklists of the season's months sum to 5 or more, and its
\* value is then the size of the union of the species' monthly detection
\* sets of those months over that sum, rounded to 4 places.
C10_SeasonalRate ==
    /\ SeasonReportedFromFive
    /\ Calculated =>
        \A sp \in DOMAIN species_guides : \A e \in EntriesOf(sp) :
            \A s \in DOMAIN e.seasonal_rates :
                e.seasonal_rates[s]
                    = Round(Cardinality(SeasonDetected(sp, e.locality_id, s)),
                            SeasonVisits(e.locality_id, s), RATE_DECIMAL_PLACES)

\* the filter of the stream a row belongs to
Qualifies(row) ==
    IF "species" \in DOMAIN row THEN ObsMask(row) ELSE EventMask(row)

\* the reader of the current file has returned a row whose date cannot be
\* parsed / such a row that passes the filter of its stream
BadDateRead == \E i \in 1..Len(rows) : ~DateParses(rows[i])

QualifyingBadDateRead ==
    \E i \in 1..Len(rows) : Qualifies(rows[i]) /\ ~DateParses(rows[i])

\* an aborted run has calculated and written nothing, and takes no further
\* step
AbortedRunProducesNothing ==
    /\ [](pc = "aborted" => species_guides = EmptyDict /\ ~written)
    /\ [][pc = "aborted" => pc' = "aborted"]_vars

\* C11 as claimed: once a row of either stream with an unparsable date has
\* been read, whether or not it passes the filter, the run has aborted; an
\* aborted run calculates and writes nothing.
C11_AnyBadDateAborts ==
    /\ [](BadDateRead => pc = "aborted")
    /\ AbortedRunProducesNothing

\* C11 as amended: once a row of either stream that passes the stream's
\* filter and has an unparsable date has been read, the run has aborted; an
\* aborted run calculates and writes nothing.
C11_QualifyingBadDateAborts ==
    /\ [](QualifyingBadDateRead => pc = "aborted")
    /\ AbortedRunProducesNothing

\* the main file's second chunk aborted the run after the first was counted
C11_Witness ==
    /\ pc = "aborted"
    /\ QualifyingBadDateRead
    /\ hotspot_data # EmptyDict
    /\ species_detections # EmptyDict
    /\ species_guides = EmptyDict
    /\ ~written

\* a row with an unparsable date that the filter dropped, in a run that
\* went on to write its output
BadDateDroppedByFilter ==
    /\ pc = "done"
    /\ written
    /\ BadDateRead

\* the locations of a species that pass the gate of step 3
IncludedLocations(sp) ==
    { loc \in DOMAIN species_detections[sp].at :
        /\ loc \in DOMAIN hotspot_data
        /\ hotspot_data[loc].total_checklists >= MIN_CHECKLISTS_THRESHOLD }

\* the sum of detection_count over the entries of a guide
SumDetectionCounts(sp) ==
    SumSeq([i \in 1..Len(species_guides[sp].hotspots) |->
               species_guides[sp].hotspots[i].detection_count])

\* C12: the guides have the species of the detection mapping as their keys;
\* a species with no location passing the gate has an empty hotspots list
\* and both totals 0; every guide's total_detections is the sum of its
\* entries' detection_count and its total_hotspots_detected the number of
\* its entries, one per included location.
C12_SpeciesInclusionAndAggregates ==
    Calculated =>
        /\ DOMAIN species_guides = DOMAIN species_detections
        /\ \A sp \in DOMAIN species_guides :
            LET guide == species_guides[sp]
            IN  /\ guide.total_detections = SumDetectionCounts(sp)
                /\ guide.total_hotspots_detected = Len(guide.hotspots)
                /\ { e.locality_id : e \in EntriesOf(sp) } = IncludedLocations(sp)
                /\ Len(guide.hotspots) = Cardinality(IncludedLocations(sp))
                /\ \A e \in EntriesOf(sp) :
                      e.detection_count
                          = Cardinality(DetectionOf(sp, e.locality_id).checklist_ids)
                /\ IncludedLocations(sp) = {} =>
                      /\ guide.hotspots = << >>
                      /\ guide.total_detections = 0
                      /\ guide.total_hotspots_detected = 0

\* species B, detected only at a location below the gate, has an empty
\* guide; species A, detected at both locations, is totalled over the one
\* that passes
C12_Witness ==
    /\ Calculated
    /\ DOMAIN species_guides = {"A", "B"}
    /\ DOMAIN species_detections["B"].at = {"L1"}
    /\ species_guides["B"].hotspots = << >>
    /\ species_guides["B"].total_detections = 0
    /\ DOMAIN species_detections["A"].at = {"L1", "L2"}
    /\ ~InGuide("A", "L1")
    /\ InGuide("A", "L2")
    /\ species_guides["A"].total_hotspots_detected = 1
    /\ species_guides["A"].total_detections
          = Cardinality(DetectionOf("A", "L2").checklist_ids)
    /\ Cardinality(DetectionOf("A", "L1").checklist_ids) > 0

\* step 1 has counted every qualifying row the reader of the sampling file
\* has returned
ChecklistsComplete ==
    /\ filtered = << >>
    /\ \A loc \in Locs :
        LET n == Cardinality({ i \in 1..Len(rows) :
                                 EventMask(rows[i]) /\ rows[i].loc = loc })
        IN  IF n = 0 THEN loc \notin DOMAIN hotspot_data
            ELSE /\ loc \in DOMAIN hotspot_data
                 /\ hotspot_data[loc].total_checklists = n

\* step 2 has recorded every qualifying row the reader of the main file has
\* returned
DetectionsComplete ==
    /\ filtered = << >>
    /\ \A i \in 1..Len(rows) :
        ObsMask(rows[i]) =>
            /\ <<rows[i].species, rows[i].loc>> \in Pairs
            /\ rows[i].sid \in DetectionOf(rows[i].species, rows[i].loc).checklist_ids
    /\ \A p \in Pairs : PairRows(p[1], p[2]) # << >>

\* C13: main leaves step 1 only when the sampling file has been counted
\* whole and step 2 only when the main file has; the rate calculation runs
\* from step 3 alone, on accumulators that are complete and never change
\* again; the guides are written from step 4 alone, after the calculation
\* has returned; an aborted run reaches neither step.
C13_JoinBarrier ==
    /\ [][pc' # pc =>
            \/ pc = "step1" /\ pc' = "step2" /\ ChecklistsComplete
            \/ pc = "step2" /\ pc' = "step3" /\ DetectionsComplete
            \/ pc = "step3" /\ pc' = "step4"
            \/ pc = "step4" /\ pc' = "done"
            \/ pc \in {"step1", "step2"} /\ pc' = "aborted"]_vars
    /\ [][pc # "step1" => hotspot_data' = hotspot_data]_vars
    /\ [][pc # "step2" => species_detections' = species_detections]_vars
    /\ [](pc \in {"step3", "step4", "done"} => DetectionsComplete)
    /\ [](IF Calculated
          THEN species_guides
                   = calculate_occurrence_rates(hotspot_data, species_detections,
                                                MIN_CHECKLISTS_THRESHOLD)
          ELSE species_guides = EmptyDict)
    /\ [](written <=> pc = "done")

\* a run that counted two qualifying rows of each file, calculated and wrote
C13_Witness ==
    /\ pc = "done"
    /\ written
    /\ \E loc \in DOMAIN hotspot_data : hotspot_data[loc].total_checklists = 2
    /\ Len(ObsProcessed) = 2
    /\ Cardinality(Pairs) = 2
    /\ DOMAIN species_guides = DOMAIN species_detections

\* avg_count (in tenths) is at most max_count
AvgAtMostMax(e) ==
    (e.avg_count # None /\ e.max_count # None) => e.avg_count[1] <= 10 * e.max_count[1]

\* no two rows of the pair with an integer count share a visit identifier
OneCountPerVisit(sp, loc) ==
    LET rs == PairRows(sp, loc)
    IN  \A i, j \in 1..Len(rs) :
            (i # j /\ rs[i].sid = rs[j].sid)
                => (rs[i].count.k # "int" \/ rs[j].count.k # "int")

\* the part of C14 the code keeps: entries whose visits carry one count each
AvgAtMostMaxOnePerVisit ==
    Calculated =>
        \A sp \in DOMAIN species_guides : \A e \in EntriesOf(sp) :
            OneCountPerVisit(sp, e.locality_id) => AvgAtMostMax(e)

\* C14: every entry reported with both avg_count and max_count has
\* avg_count <= max_count, also when several rows with numeric counts share
\* one visit identifier.
C14_AvgAtMostMax ==
    Calculated =>
        \A sp \in DOMAIN species_guides : \A e \in EntriesOf(sp) : AvgAtMostMax(e)

====
